---- MODULE Spec2Model ----
(***************************************************************************)
(* The checkbox page object (CheckboxPage, BasePage), the browser page it  *)
(* drives (the two-checkbox form and its inline click handler) and the     *)
(* locator calls the test scenarios issue, as one state machine.  One      *)
(* action is one awaited call of a scenario.                               *)
(***************************************************************************)
EXTENDS Integers, Sequences, FiniteSets, TLC

VARIABLES
    boxes,               \* the form's checkbox inputs in document order: <<[checked, attr], ...>>
    focused,             \* {} or {index of the checkbox that is document.activeElement}
    url,                 \* page.url()
    navigationOccurred,  \* set by the scenario's 'framenavigated' listener
    syncScript,          \* whether the served page carries the inline onclick handler
    lastAction,          \* per checkbox: the last page-object action aimed at it since the load
    heading,             \* the text of the page's h3, as <<text>>, or <<>> when there is none
    run,                 \* the test run: [ci, retry, phase, calls, earlierFailed], and
                         \* where followed the operation that waits (pending, index, waited,
                         \* elapsed) or the calls not awaited (inflight, clicks)
    other,               \* the checkboxes of the page of a scenario running in another worker
    op,                  \* the call that settled last: [name, index, result, value]
    prev                 \* the call settled before it: [name, index]

vars == <<boxes, focused, url, navigationOccurred, syncScript, lastAction, heading, run, other,
          op, prev>>

\* Indices a scenario hands to the page object: 0..MaxIndex (the form has two checkboxes).
MaxIndex == 2

\* The longest run of clicks and Space presses on one checkbox that is followed
\* step by step ('rapid checkbox clicking' makes five clicks).
MaxToggles == 5

\* The most calls the body of a scenario makes under the runner.
MaxCalls == 2

Indices == 0..MaxIndex

\* The indices of the two checkboxes of the page
Checkboxes == 0..1

----------------------------------------------------------------------------
(* Constants of the repository *)

BaseURL == "http://the-internet.herokuapp.com"

CheckboxesPath == "/checkboxes"

BlankURL == "about:blank"

INITIAL_STATES == [checkbox1 |-> FALSE, checkbox2 |-> TRUE]

\* <form id='checkboxes'> <input type="checkbox"> checkbox 1</br>
\*                        <input type="checkbox" checked> checkbox 2 </form>
ReferenceMarkup ==
    << [checked |-> FALSE, attr |-> FALSE], [checked |-> TRUE, attr |-> TRUE] >>

\* The element children of the form, in document order: the two inputs
\* with the line break of "</br>" between them (text is no element); box is
\* the place of an input among the checkboxes.
FormChildren(b) ==
    IF b = <<>> THEN <<>>
    ELSE << [tag |-> "input", type |-> "checkbox", box |-> 0],
            [tag |-> "br", type |-> "", box |-> 0 - 1],
            [tag |-> "input", type |-> "checkbox", box |-> 1] >>

\* CHECKBOX_SELECTORS: 'input[type="checkbox"]' under '#checkboxes', with
\* :nth-child(n) where the selector has one (nthChild 0: none)
CHECKBOX_SELECTORS ==
    [allCheckboxes  |-> [tag |-> "input", type |-> "checkbox", nthChild |-> 0],
     firstCheckbox  |-> [tag |-> "input", type |-> "checkbox", nthChild |-> 1],
     secondCheckbox |-> [tag |-> "input", type |-> "checkbox", nthChild |-> 2]]

\* The places among the children of the form that a selector matches:
\* :nth-child(n) holds of the element that is the n-th child of its parent
Select(children, selector) ==
    {k \in DOMAIN children :
        /\ children[k].tag = selector.tag
        /\ children[k].type = selector.type
        /\ selector.nthChild # 0 => k = selector.nthChild}

\* this.checkboxes.nth(index): the place of the match number index, from 0,
\* of allCheckboxes in document order, as a set (empty when there is none)
NthMatch(children, index) ==
    LET all == Select(children, CHECKBOX_SELECTORS.allCheckboxes)
    IN  {k \in all : Cardinality({j \in all : j < k}) = index}

Keys == {"Space", "Enter", "Tab"}

\* page.locator('h3', { hasText: 'Checkboxes' })
HeadingText == "Checkboxes"

----------------------------------------------------------------------------
(* BasePage *)

StartsWith(s, p) == Len(s) >= Len(p) /\ SubSeq(s, 1, Len(p)) = p

\* const url = path.startsWith('http') ? path : `${this.baseURL}${path}`
GotoURL(path) == IF StartsWith(path, "http") THEN path ELSE BaseURL \o path

CheckboxesURL == GotoURL(CheckboxesPath)

----------------------------------------------------------------------------
(* The page under test *)

\* this.checkboxes.count()
Count(b) == Len(b)

\* this.checkboxes.nth(index) resolves to an element
Resolves(b, index) == index >= 0 /\ index < Count(b)

Nth(b, index) == b[index + 1]

\* Variant: the handler leaves the attribute as it was.
OnClick_Stale(box) == box

\* checkboxes[i].onclick:
\*   this.checked ? this.setAttribute("checked", "") : this.removeAttribute("checked")
OnClick(box) == [box EXCEPT !.attr = box.checked]

\* A pointer click or a Space key on a checkbox: the browser toggles the
\* property, then dispatches the click event to the page's handler (if any).
Activate(box, script) ==
    LET toggled == [box EXCEPT !.checked = ~box.checked]
    IN  IF script THEN OnClick(toggled) ELSE toggled

ClickNth(b, index, script) == [b EXCEPT ![index + 1] = Activate(@, script)]

----------------------------------------------------------------------------
(* Locator calls *)

Outcome(b, f, result, value) ==
    [boxes |-> b, focused |-> f, result |-> result, value |-> value, navigates |-> FALSE]

\* locator.isChecked(): the checked property, or a TimeoutError when nothing resolves
LocatorIsChecked(b, index) ==
    IF Resolves(b, index)
    THEN [result |-> "ok", value |-> <<Nth(b, index).checked>>]
    ELSE [result |-> "TimeoutError", value |-> <<>>]

\* locator.getAttribute('checked') !== null
LocatorHasCheckedAttribute(b, index) ==
    IF Resolves(b, index)
    THEN [result |-> "ok", value |-> <<Nth(b, index).attr>>]
    ELSE [result |-> "TimeoutError", value |-> <<>>]

\* locator.click()
LocatorClick(b, f, index, script) ==
    IF Resolves(b, index)
    THEN Outcome(ClickNth(b, index, script), {index}, "ok", <<>>)
    ELSE Outcome(b, f, "TimeoutError", <<>>)

\* Variant: check() / uncheck() return without a click
LocatorSetChecked_Idle(b, f, index, want, script) ==
    IF Resolves(b, index)
    THEN Outcome(b, f, "ok", <<>>)
    ELSE Outcome(b, f, "TimeoutError", <<>>)

\* locator.check() / locator.uncheck(): returns at once when the state is the
\* wanted one, else clicks and fails when the click did not change the state
LocatorSetChecked(b, f, index, want, script) ==
    IF ~Resolves(b, index) THEN Outcome(b, f, "TimeoutError", <<>>)
    ELSE IF Nth(b, index).checked = want THEN Outcome(b, f, "ok", <<>>)
    ELSE LET after == ClickNth(b, index, script)
         IN  Outcome(after, {index},
                     IF Nth(after, index).checked = want THEN "ok" ELSE "Error", <<>>)

\* Variant: focus leaves the active element as it was
LocatorFocus_Unmoved(b, f, index) ==
    IF Resolves(b, index)
    THEN Outcome(b, f, "ok", <<>>)
    ELSE Outcome(b, f, "TimeoutError", <<>>)

\* locator.focus()
LocatorFocus(b, f, index) ==
    IF Resolves(b, index)
    THEN Outcome(b, {index}, "ok", <<>>)
    ELSE Outcome(b, f, "TimeoutError", <<>>)

\* Variant: Enter on a checkbox submits the form.
KeyOnCheckbox_Submit(b, index, key, script) ==
    CASE key = "Space" -> Outcome(ClickNth(b, index, script), {index}, "ok", <<>>)
      [] key = "Tab"   -> Outcome(b, IF Resolves(b, index + 1) THEN {index + 1} ELSE {},
                                  "ok", <<>>)
      [] key = "Enter" -> [Outcome(b, {index}, "ok", <<>>) EXCEPT !.navigates = TRUE]

\* What a key does on the focused checkbox.  Space activates it; Tab moves the
\* focus to the next focusable element; Enter does nothing: the form has no
\* submit button and no action, and a checkbox does not submit implicitly.
KeyOnCheckbox(b, index, key, script) ==
    CASE key = "Space" -> Outcome(ClickNth(b, index, script), {index}, "ok", <<>>)
      [] key = "Tab"   -> Outcome(b, IF Resolves(b, index + 1) THEN {index + 1} ELSE {},
                                  "ok", <<>>)
      [] key = "Enter" -> Outcome(b, {index}, "ok", <<>>)

\* Variant: press only focuses the element, the key is lost
LocatorPress_NoKey(b, f, index, key, script) ==
    IF Resolves(b, index)
    THEN Outcome(b, {index}, "ok", <<>>)
    ELSE Outcome(b, f, "TimeoutError", <<>>)

\* locator.press(key): focuses the element, then presses the key
LocatorPress(b, f, index, key, script) ==
    IF Resolves(b, index)
    THEN KeyOnCheckbox(b, index, key, script)
    ELSE Outcome(b, f, "TimeoutError", <<>>)

\* for (...) { await checkbox.click(); }, await checkbox.press('Space'); ...:
\* the page after the awaited steps, each a "click" or a "Space", on one checkbox
RECURSIVE Interact(_, _, _, _, _)
Interact(b, f, index, steps, script) ==
    IF steps = <<>> THEN Outcome(b, f, "ok", <<>>)
    ELSE LET r == IF Head(steps) = "click"
                  THEN LocatorClick(b, f, index, script)
                  ELSE LocatorPress(b, f, index, Head(steps), script)
         IN  IF r.result # "ok" THEN r
             ELSE Interact(r.boxes, r.focused, index, Tail(steps), script)

\* checkbox.evaluate(el => document.activeElement === el)
IsActiveElement(b, f, index) ==
    IF Resolves(b, index)
    THEN [result |-> "ok", value |-> <<index \in f>>]
    ELSE [result |-> "TimeoutError", value |-> <<>>]

\* Variant: the text is a <label> of its checkbox, so the click activates it.
PageClickText_Label(b, f, n) ==
    IF Resolves(b, n)
    THEN Outcome(ClickNth(b, n, TRUE), {n}, "ok", <<>>)
    ELSE Outcome(b, f, "TimeoutError", <<>>)

\* page.getByText('checkbox N').click(): the text is a bare text node of the
\* form, not a <label>, so the click lands on the form and activates nothing
PageClickText(b, f, n) ==
    IF Count(b) > 0
    THEN Outcome(b, {}, "ok", <<>>)
    ELSE Outcome(b, f, "TimeoutError", <<>>)

----------------------------------------------------------------------------
(* CheckboxPage *)

\* Variant: this.checkboxes.first()
getCheckbox_First(index) == 0

\* getCheckbox(index): this.checkboxes.nth(index), no bounds check
getCheckbox(index) == index

\* Variant: if (isChecked)
ShouldCheck_Inverted(isChecked) == isChecked

\* if (!isChecked)
ShouldCheck(isChecked) == ~isChecked

\* Variant: if (!isChecked)
ShouldUncheck_Inverted(isChecked) == ~isChecked

\* if (isChecked)
ShouldUncheck(isChecked) == isChecked

\* Variant: await checkbox.click() with no look at the state
checkCheckbox_Click(b, f, index, script) ==
    LocatorClick(b, f, getCheckbox(index), script)

checkCheckbox(b, f, index, script) ==
    LET checkbox  == getCheckbox(index)
        isChecked == LocatorIsChecked(b, checkbox)
    IN  IF isChecked.result # "ok" THEN Outcome(b, f, isChecked.result, <<>>)
        ELSE IF ShouldCheck(isChecked.value[1])
             THEN LocatorSetChecked(b, f, checkbox, TRUE, script)
             ELSE Outcome(b, f, "ok", <<>>)

\* Variant: await checkbox.click() with no look at the state
uncheckCheckbox_Click(b, f, index, script) ==
    LocatorClick(b, f, getCheckbox(index), script)

uncheckCheckbox(b, f, index, script) ==
    LET checkbox  == getCheckbox(index)
        isChecked == LocatorIsChecked(b, checkbox)
    IN  IF isChecked.result # "ok" THEN Outcome(b, f, isChecked.result, <<>>)
        ELSE IF ShouldUncheck(isChecked.value[1])
             THEN LocatorSetChecked(b, f, checkbox, FALSE, script)
             ELSE Outcome(b, f, "ok", <<>>)

\* Variant: checkCheckbox resolves before its action has settled, so the
\* check of the first call lands after the uncheck of the second
checkThenUncheck_Unsettled(b, f, first, second, script) ==
    LET r == uncheckCheckbox(b, f, second, script)
    IN  IF r.result # "ok" THEN r
        ELSE checkCheckbox(r.boxes, r.focused, first, script)

\* checkboxPage.checkCheckbox(first).then(page => page.uncheckCheckbox(second)):
\* checkCheckbox resolves to this after its awaits; the callback of then runs
\* on that resolution only, a rejection skips it
checkThenUncheck(b, f, first, second, script) ==
    LET r == checkCheckbox(b, f, first, script)
    IN  IF r.result # "ok" THEN r
        ELSE uncheckCheckbox(r.boxes, r.focused, second, script)

\* Variant: isCheckboxChecked catches the failure of the read and returns false
isCheckboxChecked_Recovering(b, index) ==
    IF Resolves(b, getCheckbox(index))
    THEN LocatorIsChecked(b, getCheckbox(index))
    ELSE [result |-> "ok", value |-> <<FALSE>>]

\* await checkboxPage.checkCheckbox(index) or await checkboxPage.uncheckCheckbox(index),
\* as want says: the checkboxes after the call
SetTo(b, index, want, script) ==
    IF want
    THEN checkCheckbox(b, {}, index, script).boxes
    ELSE uncheckCheckbox(b, {}, index, script).boxes

\* The calls that take the checkboxes from their states to the states wanted:
\* one checkCheckbox or uncheckCheckbox for each index that differs
Plan(b, wanted) == {i \in 0..(Len(b) - 1) : b[i + 1].checked # wanted[i + 1]}

\* The checkboxes after the calls of the plan, made in the order of the indices
RECURSIVE MoveTo(_, _, _, _)
MoveTo(b, wanted, i, script) ==
    IF i >= Len(b) THEN b
    ELSE MoveTo(IF i \in Plan(b, wanted) THEN SetTo(b, i, wanted[i + 1], script) ELSE b,
                wanted, i + 1, script)

\* const propertyChecked = await checkbox.isChecked(); return propertyChecked;
isCheckboxChecked(b, index) ==
    LET propertyChecked == LocatorIsChecked(b, getCheckbox(index))
    IN  propertyChecked

\* Variant: a mismatch is logged as a warning and the call returns
verifyCheckboxSync_Warning(b, index) ==
    LET propertyChecked == LocatorIsChecked(b, getCheckbox(index))
    IN  [result |-> propertyChecked.result, value |-> <<>>]

\* expect(propertyChecked).toBe(attributeChecked)
verifyCheckboxSync(b, index) ==
    LET propertyChecked  == LocatorIsChecked(b, getCheckbox(index))
        attributeChecked == LocatorHasCheckedAttribute(b, getCheckbox(index))
    IN  IF propertyChecked.result # "ok" THEN [result |-> propertyChecked.result, value |-> <<>>]
        ELSE IF attributeChecked.result # "ok"
             THEN [result |-> attributeChecked.result, value |-> <<>>]
        ELSE IF propertyChecked.value[1] = attributeChecked.value[1]
             THEN [result |-> "ok", value |-> <<>>]
             ELSE [result |-> "ExpectError", value |-> <<>>]

\* Variant: for (let i = 0; i <= count; i++)
LoopContinues_Inclusive(i, count) == i <= count

\* for (let i = 0; i < count; i++)
LoopContinues(i, count) == i < count

\* for (...) { states.push(await this.isCheckboxChecked(i)); } return states;
RECURSIVE StatesLoop(_, _, _, _)
StatesLoop(b, count, i, states) ==
    IF LoopContinues(i, count)
    THEN LET r == isCheckboxChecked(b, i)
         IN  IF r.result # "ok" THEN [result |-> r.result, value |-> <<>>]
             ELSE StatesLoop(b, count, i + 1, Append(states, r.value[1]))
    ELSE [result |-> "ok", value |-> <<states>>]

\* Variant: the states are read once, at the load, and kept
getAllCheckboxStates_Kept(b) ==
    [result |-> "ok", value |-> <<<<INITIAL_STATES.checkbox1, INITIAL_STATES.checkbox2>>>>]

\* const count = await this.checkboxes.count(); ... return states;
getAllCheckboxStates(b) == StatesLoop(b, Count(b), 0, <<>>)

\* Variant: await this.form.count()
getCheckboxCount_Form(b) == [result |-> "ok", value |-> <<IF Count(b) > 0 THEN 1 ELSE 0>>]

getCheckboxCount(b) == [result |-> "ok", value |-> <<Count(b)>>]

\* BasePage.getPageHeading: this.page.locator('h3').first().textContent()
getPageHeading(h) ==
    IF h # <<>>
    THEN [result |-> "ok", value |-> <<h[1]>>]
    ELSE [result |-> "TimeoutError", value |-> <<>>]

----------------------------------------------------------------------------
(* The scenario: one action per awaited call *)

NoIndex == 0 - 1

Untouched(b) == [i \in 1..Len(b) |-> "none"]

\* The call settles: it becomes the last call, the last call the one before.
Settle(name, index, result, value) ==
    /\ op' = [name |-> name, index |-> index, result |-> result, value |-> value]
    /\ prev' = [name |-> op.name, index |-> op.index]

\* A fresh load of the checkbox page at address u.
Load(u) ==
    /\ boxes' = ReferenceMarkup
    /\ focused' = {}
    /\ url' = u
    /\ heading' = <<HeadingText>>
    /\ navigationOccurred' = TRUE
    /\ lastAction' = Untouched(ReferenceMarkup)

\* A load that commits at address u but serves a document without the heading
\* and the form (an error page of the host).
LoadOther(u) ==
    /\ boxes' = <<>>
    /\ focused' = {}
    /\ url' = u
    /\ heading' = <<>>
    /\ navigationOccurred' = TRUE
    /\ lastAction' = <<>>

\* The runner outside a run: the calls of one scenario, in any order.
NoRun == [ci |-> FALSE, retry |-> 0, phase |-> "open", calls |-> 0, earlierFailed |-> FALSE]

\* The page after a locator call r aimed at checkbox index; what is the kind
\* of action recorded for that checkbox.  A call that submits the form
\* reloads the page at the form's address.
Apply(r, index, what) ==
    IF r.navigates
    THEN Load(url \o "?")
    ELSE /\ boxes' = r.boxes
         /\ focused' = r.focused
         /\ lastAction' = IF Resolves(boxes, index)
                          THEN [lastAction EXCEPT ![index + 1] = what]
                          ELSE lastAction
         /\ UNCHANGED <<url, heading, navigationOccurred>>

\* new CheckboxPage(page) on a new browser page
Init ==
    /\ boxes = <<>>
    /\ focused = {}
    /\ url = BlankURL
    /\ navigationOccurred = FALSE
    /\ syncScript = TRUE
    /\ lastAction = <<>>
    /\ heading = <<>>
    /\ run = NoRun
    /\ other = <<>>
    /\ op = [name |-> "new", index |-> NoIndex, result |-> "ok", value |-> <<>>]
    /\ prev = [name |-> "none", index |-> NoIndex]

\* Variant: gotoCheckboxes without the wait for the heading
gotoCheckboxes_NoWait(committed, h) == IF committed THEN "ok" ELSE "TimeoutError"

\* await super.goto('/checkboxes'); await this.pageHeading.waitFor();
\* goto fails when the navigation does not commit in time, waitFor when no
\* h3 with the text 'Checkboxes' shows up in the document h.
gotoCheckboxes(committed, h) ==
    IF ~committed THEN "TimeoutError"
    ELSE IF h = <<HeadingText>> THEN "ok" ELSE "TimeoutError"

\* The navigation commits and serves the checkbox page, or commits and serves
\* a document without the heading, or does not commit and the page stays on
\* the document it had.
GotoCheckboxes ==
    \E served \in {"checkboxes", "other", "nothing"} :
        /\ CASE served = "checkboxes" -> Load(GotoURL(CheckboxesPath))
             [] served = "other"      -> LoadOther(GotoURL(CheckboxesPath))
             [] served = "nothing"    ->
                    UNCHANGED <<boxes, focused, url, heading, navigationOccurred, lastAction>>
        /\ Settle("gotoCheckboxes", NoIndex, gotoCheckboxes(served # "nothing", heading'), <<>>)
        /\ UNCHANGED syncScript

\* Variant: the call clicks the checkbox whatever its state
CallCheckCheckbox_Clicking(index) ==
    LET r == checkCheckbox_Click(boxes, focused, index, syncScript)
    IN  /\ Apply(r, index, "other")
        /\ Settle("checkCheckbox", index, r.result, r.value)
        /\ UNCHANGED syncScript

\* await checkboxPage.checkCheckbox(index)
CallCheckCheckbox(index) ==
    LET r == checkCheckbox(boxes, focused, index, syncScript)
    IN  /\ Apply(r, index, IF r.result = "ok" THEN "check" ELSE "other")
        /\ Settle("checkCheckbox", index, r.result, r.value)
        /\ UNCHANGED syncScript

CallUncheckCheckbox(index) ==
    LET r == uncheckCheckbox(boxes, focused, index, syncScript)
    IN  /\ Apply(r, index, IF r.result = "ok" THEN "uncheck" ELSE "other")
        /\ Settle("uncheckCheckbox", index, r.result, r.value)
        /\ UNCHANGED syncScript

\* await checkboxPage.checkCheckbox(first).then(page => page.uncheckCheckbox(second));
\* settles with the index of the first call and, as value, that of the second
CallCheckThenUncheck(first, second) ==
    LET checked == checkCheckbox(boxes, focused, first, syncScript)
        r       == checkThenUncheck(boxes, focused, first, second, syncScript)
        noted   == IF Resolves(boxes, first)
                   THEN [lastAction EXCEPT
                            ![first + 1] = IF checked.result = "ok" THEN "check" ELSE "other"]
                   ELSE lastAction
    IN  /\ boxes' = r.boxes
        /\ focused' = r.focused
        /\ lastAction' = IF checked.result = "ok" /\ Resolves(boxes, second)
                         THEN [noted EXCEPT
                                  ![second + 1] = IF r.result = "ok" THEN "uncheck" ELSE "other"]
                         ELSE noted
        /\ Settle("checkThenUncheck", first, r.result, <<second>>)
        /\ UNCHANGED <<url, heading, navigationOccurred, syncScript>>

\* Variant: the read brings the element into focus first
CallIsCheckboxChecked_Focusing(index) ==
    LET r == isCheckboxChecked(boxes, index)
    IN  /\ Settle("isCheckboxChecked", index, r.result, r.value)
        /\ focused' = IF Resolves(boxes, index) THEN {index} ELSE focused
        /\ UNCHANGED <<boxes, url, heading, navigationOccurred, syncScript, lastAction>>

\* await checkboxPage.isCheckboxChecked(index)
CallIsCheckboxChecked(index) ==
    LET r == isCheckboxChecked(boxes, index)
    IN  /\ Settle("isCheckboxChecked", index, r.result, r.value)
        /\ UNCHANGED <<boxes, focused, url, heading, navigationOccurred, syncScript, lastAction>>

CallVerifyCheckboxSync(index) ==
    LET r == verifyCheckboxSync(boxes, index)
    IN  /\ Settle("verifyCheckboxSync", index, r.result, r.value)
        /\ UNCHANGED <<boxes, focused, url, heading, navigationOccurred, syncScript, lastAction>>

CallGetAllCheckboxStates ==
    LET r == getAllCheckboxStates(boxes)
    IN  /\ Settle("getAllCheckboxStates", NoIndex, r.result, r.value)
        /\ UNCHANGED <<boxes, focused, url, heading, navigationOccurred, syncScript, lastAction>>

CallGetCheckboxCount ==
    LET r == getCheckboxCount(boxes)
    IN  /\ Settle("getCheckboxCount", NoIndex, r.result, r.value)
        /\ UNCHANGED <<boxes, focused, url, heading, navigationOccurred, syncScript, lastAction>>

CallGetPageHeading ==
    LET r == getPageHeading(heading)
    IN  /\ Settle("getPageHeading", NoIndex, r.result, r.value)
        /\ UNCHANGED <<boxes, focused, url, heading, navigationOccurred, syncScript, lastAction>>

\* Variant: getCheckbox validates the index against the page
CallGetCheckbox_Validating(index) ==
    /\ Settle("getCheckbox", index,
              IF Resolves(boxes, index) THEN "ok" ELSE "RangeError", <<getCheckbox(index)>>)
    /\ UNCHANGED <<boxes, focused, url, heading, navigationOccurred, syncScript, lastAction>>

\* getCheckbox(index): return this.checkboxes.nth(index); a locator, made
\* without a look at the page
CallGetCheckbox(index) ==
    /\ Settle("getCheckbox", index, "ok", <<getCheckbox(index)>>)
    /\ UNCHANGED <<boxes, focused, url, heading, navigationOccurred, syncScript, lastAction>>

\* checkbox.click()
Click(index) ==
    LET r == LocatorClick(boxes, focused, getCheckbox(index), syncScript)
    IN  /\ Apply(r, index, "other")
        /\ Settle("click", index, r.result, r.value)
        /\ UNCHANGED syncScript

\* checkbox.check() / checkbox.uncheck()
SetChecked(index, want) ==
    LET r == LocatorSetChecked(boxes, focused, getCheckbox(index), want, syncScript)
    IN  /\ Apply(r, index, "other")
        /\ Settle(IF want THEN "check" ELSE "uncheck", index, r.result, r.value)
        /\ UNCHANGED syncScript

\* checkbox.focus()
Focus(index) ==
    LET r == LocatorFocus(boxes, focused, getCheckbox(index))
    IN  /\ Apply(r, index, lastAction[index + 1])
        /\ Settle("focus", index, r.result, r.value)
        /\ UNCHANGED syncScript

\* checkbox.press(key)
Press(index, key) ==
    LET r == LocatorPress(boxes, focused, getCheckbox(index), key, syncScript)
    IN  /\ Apply(r, index, IF key = "Space" THEN "other" ELSE lastAction[index + 1])
        /\ Settle("press" \o key, index, r.result, r.value)
        /\ UNCHANGED syncScript

\* page.getByText('checkbox 1').click(): n is the checkbox the text stands next to
ClickText(n) ==
    LET r == PageClickText(boxes, focused, n)
    IN  /\ Apply(r, n, lastAction[n + 1])
        /\ Settle("clickText", n, r.result, r.value)
        /\ UNCHANGED syncScript

\* let navigationOccurred = false; page.on('framenavigated', ...)
OnFrameNavigated ==
    /\ navigationOccurred' = FALSE
    /\ Settle("onFrameNavigated", NoIndex, "ok", <<>>)
    /\ UNCHANGED <<boxes, focused, url, heading, syncScript, lastAction>>

\* A call of a scenario taken by itself: the runner and the other workers stand still.
Alone(call) == call /\ UNCHANGED <<run, other>>

Next ==
    \/ Alone(GotoCheckboxes)
    \/ \E index \in Indices : Alone(CallCheckCheckbox(index))
    \/ \E index \in Indices : Alone(CallUncheckCheckbox(index))
    \/ \E index \in Indices : Alone(CallIsCheckboxChecked(index))
    \/ \E index \in Indices : Alone(CallVerifyCheckboxSync(index))
    \/ Alone(CallGetAllCheckboxStates)
    \/ Alone(CallGetCheckboxCount)
    \/ \E index \in Indices : Alone(Click(index))
    \/ \E index \in Indices, want \in BOOLEAN : Alone(SetChecked(index, want))
    \/ \E index \in Indices : Alone(Focus(index))
    \/ \E index \in Indices, key \in Keys : Alone(Press(index, key))
    \/ \E n \in 0..1 : Alone(ClickText(n))
    \/ Alone(OnFrameNavigated)

\* The reference page: the inline handler is in place.
Spec == Init /\ [][Next]_vars

\* Any served page: the handler may be missing (the regression the
\* property/attribute check exists to catch).
InitAnyPage ==
    /\ boxes = <<>>
    /\ focused = {}
    /\ url = BlankURL
    /\ navigationOccurred = FALSE
    /\ syncScript \in BOOLEAN
    /\ lastAction = <<>>
    /\ heading = <<>>
    /\ run = NoRun
    /\ other = <<>>
    /\ op = [name |-> "new", index |-> NoIndex, result |-> "ok", value |-> <<>>]
    /\ prev = [name |-> "none", index |-> NoIndex]

SpecAnyPage == InitAnyPage /\ [][Next]_vars

\* The calls of the page object alone, with its handles, its heading and its
\* chained calls, and no call on a locator from the test itself.
NextPageObject ==
    \/ Alone(GotoCheckboxes)
    \/ \E index \in Indices : Alone(CallGetCheckbox(index))
    \/ \E index \in Indices : Alone(CallCheckCheckbox(index))
    \/ \E index \in Indices : Alone(CallUncheckCheckbox(index))
    \/ \E first \in Indices, second \in Indices : Alone(CallCheckThenUncheck(first, second))
    \/ \E index \in Indices : Alone(CallIsCheckboxChecked(index))
    \/ \E index \in Indices : Alone(CallVerifyCheckboxSync(index))
    \/ Alone(CallGetAllCheckboxStates)
    \/ Alone(CallGetCheckboxCount)
    \/ Alone(CallGetPageHeading)

SpecPageObject == Init /\ [][NextPageObject]_vars

\* The same calls against a page with or without its inline handler.
SpecPageObjectAnyPage == InitAnyPage /\ [][NextPageObject]_vars

\* Scenarios made of gotoCheckboxes, checkCheckbox and uncheckCheckbox alone.
NextCheckUncheck ==
    \/ Alone(GotoCheckboxes)
    \/ \E index \in Indices : Alone(CallCheckCheckbox(index))
    \/ \E index \in Indices : Alone(CallUncheckCheckbox(index))

SpecCheckUncheck == Init /\ [][NextCheckUncheck]_vars

----------------------------------------------------------------------------
(* The test runner: scenarios, attempts, workers *)

\* Variant: retries: 2
retries_Always(ci) == 2

\* retries: process.env.CI ? 2 : 0
retries(ci) == IF ci THEN 2 ELSE 0

\* workers: process.env.CI ? 1 : undefined, with fullyParallel: true: a second
\* worker runs another scenario at the same time unless CI is set
Parallel(ci) == ~ci

\* The page fixture of an attempt: a new page in a new browser context, and
\* new CheckboxPage(page) on it.
NewPage ==
    /\ boxes' = <<>>
    /\ focused' = {}
    /\ url' = BlankURL
    /\ heading' = <<>>
    /\ navigationOccurred' = FALSE
    /\ lastAction' = <<>>
    /\ op' = [name |-> "new", index |-> NoIndex, result |-> "ok", value |-> <<>>]
    /\ prev' = [name |-> "none", index |-> NoIndex]
    /\ UNCHANGED syncScript

\* How the attempt goes on after a call: a rejected await ends it as failed.
Goes(result) == IF result = "ok" THEN "body" ELSE "failed"

\* Variant: beforeEach makes the page object and does not navigate
RunBeforeEach_NoGoto ==
    /\ run.phase = "beforeEach"
    /\ Settle("beforeEach", NoIndex, "ok", <<>>)
    /\ run' = [run EXCEPT !.phase = "body"]
    /\ UNCHANGED <<boxes, focused, url, heading, navigationOccurred, syncScript, lastAction,
                   other>>

\* test.beforeEach(async ({ page }) => { checkboxPage = new CheckboxPage(page);
\*                                       await checkboxPage.gotoCheckboxes(); });
RunBeforeEach ==
    /\ run.phase = "beforeEach"
    /\ GotoCheckboxes
    /\ run' = [run EXCEPT !.phase = Goes(op'.result)]
    /\ UNCHANGED other

\* One awaited call of the body of the test.
InBody(call) ==
    /\ run.phase = "body"
    /\ run.calls < MaxCalls
    /\ call
    /\ run' = [run EXCEPT !.calls = @ + 1, !.phase = Goes(op'.result)]
    /\ UNCHANGED other

\* The body returns: the test passes.
Pass ==
    /\ run.phase = "body"
    /\ run' = [run EXCEPT !.phase = "passed"]
    /\ UNCHANGED <<boxes, focused, url, heading, navigationOccurred, syncScript, lastAction,
                   other, op, prev>>

\* A failed test is run again, from its beforeEach, on a new page, while it
\* has retries left.
Retry ==
    /\ run.phase = "failed"
    /\ run.retry < retries(run.ci)
    /\ NewPage
    /\ run' = [run EXCEPT !.retry = @ + 1, !.phase = "beforeEach", !.calls = 0]
    /\ UNCHANGED other

\* The runner goes on to the next test of the file, on a new page.
NextScenario ==
    /\ \/ run.phase = "passed"
       \/ run.phase = "failed" /\ run.retry >= retries(run.ci)
    /\ NewPage
    /\ run' = [run EXCEPT !.retry = 0, !.phase = "beforeEach", !.calls = 0,
                          !.earlierFailed = @ \/ run.phase = "failed"]
    /\ UNCHANGED other

\* A scenario in another worker, on the page of that worker: it loads the
\* checkbox page or checks or unchecks one of its checkboxes.
OtherWorker ==
    /\ Parallel(run.ci)
    /\ \/ other' = ReferenceMarkup
       \/ \E index \in Checkboxes, want \in BOOLEAN :
             /\ Resolves(other, index)
             /\ other' = IF want THEN checkCheckbox(other, {}, index, syncScript).boxes
                                 ELSE uncheckCheckbox(other, {}, index, syncScript).boxes
    /\ UNCHANGED <<boxes, focused, url, heading, navigationOccurred, syncScript, lastAction,
                   run, op, prev>>

NextRunner ==
    \/ RunBeforeEach
    \/ \E index \in Indices : InBody(CallCheckCheckbox(index))
    \/ \E index \in Indices : InBody(CallUncheckCheckbox(index))
    \/ \E index \in Indices : InBody(CallIsCheckboxChecked(index))
    \/ \E index \in Indices : InBody(CallVerifyCheckboxSync(index))
    \/ InBody(CallGetAllCheckboxStates)
    \/ InBody(CallGetCheckboxCount)
    \/ Pass
    \/ Retry
    \/ NextScenario
    \/ OtherWorker

\* The runner starts the first test of a file, with CI set or not, against a
\* page with or without its inline handler.
InitRunner ==
    /\ boxes = <<>>
    /\ focused = {}
    /\ url = BlankURL
    /\ navigationOccurred = FALSE
    /\ syncScript \in BOOLEAN
    /\ lastAction = <<>>
    /\ heading = <<>>
    /\ run = [ci |-> FALSE, retry |-> 0, phase |-> "beforeEach", calls |-> 0,
              earlierFailed |-> FALSE]
          \/ run = [ci |-> TRUE, retry |-> 0, phase |-> "beforeEach", calls |-> 0,
                    earlierFailed |-> FALSE]
    /\ other = <<>>
    /\ op = [name |-> "new", index |-> NoIndex, result |-> "ok", value |-> <<>>]
    /\ prev = [name |-> "none", index |-> NoIndex]

SpecRunner == InitRunner /\ [][NextRunner]_vars

----------------------------------------------------------------------------
(* Timeouts: the calls that wait on the browser, followed in time *)

\* use: { actionTimeout: 10000 }
actionTimeout == 10000

\* use: { navigationTimeout: 30000 }
navigationTimeout == 30000

\* timeout: 30000, the time a test with its hooks may take
testTimeout == 30000

\* expect: { timeout: 5000 }
expectTimeout == 5000

\* Time is followed in steps of the shortest timeout of the configuration.
Slice == expectTimeout

\* The operations that wait on the browser: page.goto, pageHeading.waitFor,
\* checkbox.isChecked, checkbox.check.
Suspending == {"navigation", "wait", "read", "action"}

\* The timeout an operation carries: navigationTimeout for page.goto,
\* actionTimeout for the calls on a locator.
Timeout(kind) == IF kind = "navigation" THEN navigationTimeout ELSE actionTimeout

\* Variant: no timeout on the operations (timeout: 0)
Expired_Never(kind, waited) == FALSE

\* The operation has waited as long as its timeout allows.
Expired(kind, waited) == waited >= Timeout(kind)

\* The page-object call an operation belongs to.
CallOf(kind) ==
    CASE kind \in {"navigation", "wait"} -> "gotoCheckboxes"
      [] kind = "read"                    -> "isCheckboxChecked"
      [] kind = "action"                  -> "check"

Idle == [pending |-> "none", index |-> NoIndex, waited |-> 0]

\* run with the operation in flight put to w
Waiting(r, w) ==
    [r EXCEPT !.pending = w.pending, !.index = w.index, !.waited = w.waited]

\* beforeEach: await super.goto('/checkboxes') is issued
StartGoto ==
    /\ run.phase = "beforeEach"
    /\ run.pending = "none"
    /\ run.elapsed < testTimeout
    /\ run' = Waiting(run, [pending |-> "navigation", index |-> NoIndex, waited |-> 0])
    /\ UNCHANGED <<boxes, focused, url, heading, navigationOccurred, syncScript, lastAction,
                   other, op, prev>>

\* The body issues checkbox.isChecked() or checkbox.check() on getCheckbox(index)
StartCall(kind, index) ==
    /\ run.phase = "body"
    /\ run.pending = "none"
    /\ run.calls < MaxCalls
    /\ run.elapsed < testTimeout
    /\ run' = [Waiting(run, [pending |-> kind, index |-> index, waited |-> 0])
                  EXCEPT !.calls = @ + 1]
    /\ UNCHANGED <<boxes, focused, url, heading, navigationOccurred, syncScript, lastAction,
                   other, op, prev>>

\* Time passes while an operation waits.
Tick ==
    /\ run.pending # "none"
    /\ ~Expired(run.pending, run.waited)
    /\ run.elapsed < testTimeout
    /\ run' = [run EXCEPT !.waited = @ + Slice, !.elapsed = @ + Slice]
    /\ UNCHANGED <<boxes, focused, url, heading, navigationOccurred, syncScript, lastAction,
                   other, op, prev>>

\* page.goto commits: a document is served, and pageHeading.waitFor() is issued
NavigationCommits ==
    /\ run.pending = "navigation"
    /\ \E served \in {"checkboxes", "other"} :
          IF served = "checkboxes"
          THEN Load(GotoURL(CheckboxesPath))
          ELSE LoadOther(GotoURL(CheckboxesPath))
    /\ run' = Waiting(run, [pending |-> "wait", index |-> NoIndex, waited |-> 0])
    /\ UNCHANGED <<syncScript, other, op, prev>>

\* pageHeading.waitFor() finds the heading: gotoCheckboxes returns
HeadingShows ==
    /\ run.pending = "wait"
    /\ heading = <<HeadingText>>
    /\ Settle("gotoCheckboxes", NoIndex, gotoCheckboxes(TRUE, heading), <<>>)
    /\ run' = [Waiting(run, Idle) EXCEPT !.phase = "body"]
    /\ UNCHANGED <<boxes, focused, url, heading, navigationOccurred, syncScript, lastAction,
                   other>>

\* The element is there: checkbox.isChecked() or checkbox.check() settles
ElementAnswers ==
    /\ run.pending \in {"read", "action"}
    /\ Resolves(boxes, getCheckbox(run.index))
    /\ IF run.pending = "read"
       THEN CallIsCheckboxChecked(run.index)
       ELSE SetChecked(run.index, TRUE)
    /\ run' = [Waiting(run, Idle) EXCEPT !.phase = Goes(op'.result)]
    /\ UNCHANGED other

\* The timeout of the operation is over: its call rejects with a TimeoutError
TimeOut ==
    /\ run.pending # "none"
    /\ Expired(run.pending, run.waited)
    /\ Settle(CallOf(run.pending), run.index, "TimeoutError", <<>>)
    /\ run' = [Waiting(run, Idle) EXCEPT !.phase = "failed"]
    /\ UNCHANGED <<boxes, focused, url, heading, navigationOccurred, syncScript, lastAction,
                   other>>

\* The time of the test is over: the runner fails the test and closes its page
TestTimeOut ==
    /\ run.phase \in {"beforeEach", "body"}
    /\ run.elapsed >= testTimeout
    /\ Settle("test", NoIndex, "TimeoutError", <<>>)
    /\ run' = [Waiting(run, Idle) EXCEPT !.phase = "failed"]
    /\ UNCHANGED <<boxes, focused, url, heading, navigationOccurred, syncScript, lastAction,
                   other>>

\* The body returns with no call in flight: the test passes.
PassTimed ==
    /\ run.pending = "none"
    /\ Pass

\* The runner goes on to the next test, passed or failed the last one.
NextTimedScenario ==
    /\ run.phase \in {"passed", "failed"}
    /\ NewPage
    /\ run' = [run EXCEPT !.phase = "beforeEach", !.calls = 0, !.elapsed = 0,
                          !.earlierFailed = @ \/ run.phase = "failed"]
    /\ UNCHANGED other

NextTimed ==
    \/ StartGoto
    \/ \E kind \in {"read", "action"}, index \in Indices : StartCall(kind, index)
    \/ Tick
    \/ NavigationCommits
    \/ HeadingShows
    \/ ElementAnswers
    \/ TimeOut
    \/ TestTimeOut
    \/ PassTimed
    \/ NextTimedScenario

InitTimed ==
    /\ boxes = <<>>
    /\ focused = {}
    /\ url = BlankURL
    /\ navigationOccurred = FALSE
    /\ syncScript = TRUE
    /\ lastAction = <<>>
    /\ heading = <<>>
    /\ run = [ci |-> FALSE, retry |-> 0, phase |-> "beforeEach", calls |-> 0,
              earlierFailed |-> FALSE, pending |-> "none", index |-> NoIndex,
              waited |-> 0, elapsed |-> 0]
    /\ other = <<>>
    /\ op = [name |-> "new", index |-> NoIndex, result |-> "ok", value |-> <<>>]
    /\ prev = [name |-> "none", index |-> NoIndex]

\* Time passes, the timers of the operations and of the test fire, and the
\* runner does not stop between tests.
SpecTimeouts ==
    /\ InitTimed
    /\ [][NextTimed]_vars
    /\ WF_vars(Tick)
    /\ WF_vars(TimeOut)
    /\ WF_vars(TestTimeOut)
    /\ WF_vars(NextTimedScenario)

----------------------------------------------------------------------------
(* Calls that are not awaited: checkCheckbox twice on one checkbox *)

\* Variant: the check action clicks without a look at the state
CheckAction_Click(b, f, index, script) == LocatorClick(b, f, index, script)

\* await checkbox.check(), taken as one step: it clicks only when the
\* checkbox is unchecked at the moment it runs
CheckAction(b, f, index, script) == LocatorSetChecked(b, f, index, TRUE, script)

\* A checkCheckbox(index) that was called and has not yet read the state
Called(index) == [pc |-> "read", index |-> index, isChecked |-> FALSE]

\* checkboxPage.checkCheckbox(index); checkboxPage.checkCheckbox(index);
\* with no await on the first
CallBoth(index) ==
    /\ run.inflight = <<>>
    /\ run.calls < MaxCalls
    /\ run' = [run EXCEPT !.inflight = <<Called(index), Called(index)>>, !.clicks = 0,
                          !.calls = @ + 1]
    /\ Settle("checkCheckboxTwice", index, "ok", <<>>)
    /\ UNCHANGED <<boxes, focused, url, heading, navigationOccurred, syncScript, lastAction,
                   other>>

\* const isChecked = await checkbox.isChecked(); if (!isChecked) ...
ReadState(c) ==
    /\ c \in DOMAIN run.inflight
    /\ run.inflight[c].pc = "read"
    /\ LET isChecked == LocatorIsChecked(boxes, getCheckbox(run.inflight[c].index))
       IN  run' = [run EXCEPT
                      !.inflight[c].pc =
                          IF isChecked.result # "ok" THEN "failed"
                          ELSE IF ShouldCheck(isChecked.value[1]) THEN "act" ELSE "done",
                      !.inflight[c].isChecked =
                          IF isChecked.result = "ok" THEN isChecked.value[1] ELSE @]
    /\ UNCHANGED <<boxes, focused, url, heading, navigationOccurred, syncScript, lastAction,
                   other, op, prev>>

\* await checkbox.check(); return this;
ActCheck(c) ==
    /\ c \in DOMAIN run.inflight
    /\ run.inflight[c].pc = "act"
    /\ LET index == run.inflight[c].index
           r     == CheckAction(boxes, focused, getCheckbox(index), syncScript)
       IN  /\ Apply(r, index, IF r.result = "ok" THEN "check" ELSE "other")
           /\ run' = [run EXCEPT
                         !.inflight[c].pc = IF r.result = "ok" THEN "done" ELSE "failed",
                         !.clicks = IF r.boxes # boxes THEN @ + 1 ELSE @]
    /\ UNCHANGED <<syncScript, other, op, prev>>

\* Both calls have settled: the scenario goes on.
BothSettled ==
    /\ run.inflight # <<>>
    /\ \A c \in DOMAIN run.inflight : run.inflight[c].pc \in {"done", "failed"}
    /\ run' = [run EXCEPT !.inflight = <<>>]
    /\ Settle("settled", run.inflight[1].index,
              IF \A c \in DOMAIN run.inflight : run.inflight[c].pc = "done"
              THEN "ok" ELSE "TimeoutError", <<>>)
    /\ UNCHANGED <<boxes, focused, url, heading, navigationOccurred, syncScript, lastAction,
                   other>>

\* An awaited call between the pairs.
Awaited(call) ==
    /\ run.inflight = <<>>
    /\ call
    /\ UNCHANGED <<run, other>>

NextUnawaited ==
    \/ Awaited(GotoCheckboxes)
    \/ \E index \in Indices : Awaited(CallUncheckCheckbox(index))
    \/ \E index \in Indices : CallBoth(index)
    \/ \E c \in 1..2 : ReadState(c)
    \/ \E c \in 1..2 : ActCheck(c)
    \/ BothSettled

InitUnawaited ==
    /\ boxes = <<>>
    /\ focused = {}
    /\ url = BlankURL
    /\ navigationOccurred = FALSE
    /\ syncScript \in BOOLEAN
    /\ lastAction = <<>>
    /\ heading = <<>>
    /\ run = [ci |-> FALSE, retry |-> 0, phase |-> "body", calls |-> 0,
              earlierFailed |-> FALSE, inflight |-> <<>>, clicks |-> 0]
    /\ other = <<>>
    /\ op = [name |-> "new", index |-> NoIndex, result |-> "ok", value |-> <<>>]
    /\ prev = [name |-> "none", index |-> NoIndex]

SpecUnawaited == InitUnawaited /\ [][NextUnawaited]_vars

----------------------------------------------------------------------------
(* Properties *)

MutatingCalls ==
    {"checkCheckbox", "uncheckCheckbox", "click", "pressSpace", "check", "uncheck"}

PageState == <<boxes, focused, url, heading, navigationOccurred>>

\* C1: isCheckboxChecked never returns a value for a checkbox whose checked
\* property and checked attribute disagree (it returns while they are equal,
\* or it fails).
C1_IsCheckedNeverReturnsOnMismatch ==
    \A i \in Checkboxes :
        (op.name = "isCheckboxChecked" /\ op.index = i /\ op.result = "ok")
            => Nth(boxes, i).checked = Nth(boxes, i).attr

\* C2: on the reference page, after every settled call, the checked property
\* of every checkbox is true exactly when its checked attribute is present.
C2_PropertyEqualsAttribute ==
    \A i \in Checkboxes :
        Resolves(boxes, i) => (Nth(boxes, i).checked <=> Nth(boxes, i).attr)

C2_Witness ==
    /\ op.name \in MutatingCalls
    /\ op.result = "ok"
    /\ Nth(boxes, 0).checked /\ Nth(boxes, 0).attr
    /\ ~Nth(boxes, 1).checked /\ ~Nth(boxes, 1).attr

\* C3: checkCheckbox(i) on a present checkbox never fails and leaves it
\* checked, and a checkCheckbox(i) right after a checkCheckbox(i) leaves the
\* page as it was; uncheckCheckbox(i) likewise, leaving it unchecked.
C3_CheckIdempotent ==
    [][\A i \in Checkboxes :
          /\ (op'.name = "checkCheckbox" /\ op'.index = i /\ Resolves(boxes, i))
                => /\ op'.result = "ok"
                   /\ Nth(boxes', i).checked
                   /\ (op.name = "checkCheckbox" /\ op.index = i) => PageState' = PageState
          /\ (op'.name = "uncheckCheckbox" /\ op'.index = i /\ Resolves(boxes, i))
                => /\ op'.result = "ok"
                   /\ ~Nth(boxes', i).checked
                   /\ (op.name = "uncheckCheckbox" /\ op.index = i) => PageState' = PageState
      ]_vars

C3_Witness ==
    /\ prev.name = "checkCheckbox" /\ op.name = "checkCheckbox"
    /\ prev.index = 0 /\ op.index = 0
    /\ op.result = "ok"
    /\ Nth(boxes, 0).checked

\* C4: uncheckCheckbox(i) right after checkCheckbox(i) leaves checkbox i
\* unchecked, and checkCheckbox(i) right after uncheckCheckbox(i) leaves it
\* checked.
C4_RoundTrip ==
    [][\A i \in Checkboxes :
          /\ (op.name = "checkCheckbox" /\ op.index = i /\ op.result = "ok"
                /\ op'.name = "uncheckCheckbox" /\ op'.index = i)
                => (op'.result = "ok" /\ ~Nth(boxes', i).checked)
          /\ (op.name = "uncheckCheckbox" /\ op.index = i /\ op.result = "ok"
                /\ op'.name = "checkCheckbox" /\ op'.index = i)
                => (op'.result = "ok" /\ Nth(boxes', i).checked)
      ]_vars

C4_Witness ==
    /\ prev.name = "checkCheckbox" /\ op.name = "uncheckCheckbox"
    /\ prev.index = 0 /\ op.index = 0
    /\ op.result = "ok"
    /\ ~Nth(boxes, 0).checked

\* C5: after checkCheckbox(i) returns normally isCheckboxChecked(i) is true and
\* the checked attribute is present; after uncheckCheckbox(i) returns normally
\* isCheckboxChecked(i) is false and the attribute is absent.
C5_PostconditionBothChannels ==
    \A i \in Checkboxes :
        /\ (op.name = "checkCheckbox" /\ op.index = i /\ op.result = "ok")
              => /\ isCheckboxChecked(boxes, i) = [result |-> "ok", value |-> <<TRUE>>]
                 /\ LocatorHasCheckedAttribute(boxes, i).value = <<TRUE>>
        /\ (op.name = "uncheckCheckbox" /\ op.index = i /\ op.result = "ok")
              => /\ isCheckboxChecked(boxes, i) = [result |-> "ok", value |-> <<FALSE>>]
                 /\ LocatorHasCheckedAttribute(boxes, i).value = <<FALSE>>

C5_Witness ==
    /\ prev.name = "gotoCheckboxes"
    /\ op.name = "uncheckCheckbox" /\ op.index = 1 /\ op.result = "ok"
    /\ ~Nth(boxes, 1).attr

\* C6: right after gotoCheckboxes returns normally getAllCheckboxStates
\* returns [false, true], the INITIAL_STATES.
C6_InitialStates ==
    (op.name = "gotoCheckboxes" /\ op.result = "ok")
        => getAllCheckboxStates(boxes) =
              [result |-> "ok",
               value |-> << <<INITIAL_STATES.checkbox1, INITIAL_STATES.checkbox2>> >>]

C6_Witness ==
    /\ op.name = "gotoCheckboxes" /\ op.result = "ok"
    /\ prev.name = "new"
    /\ getAllCheckboxStates(boxes).value = << <<FALSE, TRUE>> >>

\* C7: getAllCheckboxStates has, at each index, the value set by the last
\* checkCheckbox/uncheckCheckbox aimed at that index since the load, and the
\* initial value at an index nothing was aimed at.
C7_LastActionDecides ==
    LET states == getAllCheckboxStates(boxes)
        initial == <<INITIAL_STATES.checkbox1, INITIAL_STATES.checkbox2>>
    IN  /\ states.result = "ok"
        /\ \A i \in Checkboxes :
              Resolves(boxes, i) =>
                  /\ lastAction[i + 1] = "check" => states.value[1][i + 1] = TRUE
                  /\ lastAction[i + 1] = "uncheck" => states.value[1][i + 1] = FALSE
                  /\ lastAction[i + 1] = "none" => states.value[1][i + 1] = initial[i + 1]

C7_Witness ==
    /\ lastAction = <<"check", "uncheck">>
    /\ op.name = "getAllCheckboxStates"
    /\ op.value = << <<TRUE, FALSE>> >>

\* C8: a checkCheckbox, uncheckCheckbox, check, uncheck, click or Space press
\* aimed at checkbox i leaves the property and the attribute of the other
\* checkbox as they were.
C8_OtherCheckboxUntouched ==
    [][\A i \in Checkboxes, j \in Checkboxes :
          (i # j /\ op'.name \in MutatingCalls /\ op'.index = i
             /\ Resolves(boxes, j) /\ Resolves(boxes', j))
             => Nth(boxes', j) = Nth(boxes, j)
      ]_vars

C8_Witness ==
    /\ op.name = "checkCheckbox" /\ op.index = 1 /\ op.result = "ok"
    /\ prev.name = "uncheckCheckbox" /\ prev.index = 1
    /\ Nth(boxes, 1).checked
    /\ Nth(boxes, 0) = [checked |-> FALSE, attr |-> FALSE]

\* C9: a click on the text next to a checkbox leaves the value of
\* isCheckboxChecked of every checkbox as it was before the click.
C9_TextClickChangesNothing ==
    [][op'.name = "clickText"
          => \A i \in Checkboxes :
                Resolves(boxes, i) =>
                    isCheckboxChecked(boxes', i) = isCheckboxChecked(boxes, i)
      ]_vars

C9_Witness ==
    /\ op.name = "clickText" /\ op.index = 0 /\ op.result = "ok"
    /\ isCheckboxChecked(boxes, 0).value = <<TRUE>>

\* C10: an Enter press on a checkbox leaves the URL as it was, fires no
\* navigation event, and the URL is still the one gotoCheckboxes loaded.
C10_EnterDoesNotNavigate ==
    [][op'.name = "pressEnter"
          => /\ url' = url
             /\ navigationOccurred' = navigationOccurred
             /\ op'.result = "ok" => url' = GotoURL(CheckboxesPath)
      ]_vars

C10_Witness ==
    /\ op.name = "pressEnter" /\ op.result = "ok"
    /\ prev.name = "focus" /\ prev.index = op.index
    /\ ~navigationOccurred
    /\ url = GotoURL(CheckboxesPath)

\* C11: while the loaded checkbox page is on display, getCheckboxCount
\* returns 2: after gotoCheckboxes and after every sequence of calls; no call
\* other than a navigation adds or removes a checkbox.
C11_CountStaysTwo ==
    [][/\ heading' = <<HeadingText>>
             => getCheckboxCount(boxes') = [result |-> "ok", value |-> <<2>>]
       /\ (op'.name = "getCheckboxCount" /\ heading' = <<HeadingText>>)
             => (op'.result = "ok" /\ op'.value = <<2>>)
       /\ op'.name # "gotoCheckboxes" => Count(boxes') = Count(boxes)
      ]_vars

C11_Witness ==
    /\ op.name = "getCheckboxCount" /\ op.value = <<2>>
    /\ prev.name \in MutatingCalls
    /\ getAllCheckboxStates(boxes).value = <<<<TRUE, FALSE>>>>

\* The runs of at most MaxToggles clicks and Space presses
ToggleRuns == UNION {[1..n -> {"click", "Space"}] : n \in 0..MaxToggles}

\* C12: a Space press on a checkbox toggles it exactly as a click does: each
\* of the two inverts the value of isCheckboxChecked of that checkbox and
\* leaves the page as the other would; after a run of n clicks and Space
\* presses in any mix, begun at a fresh load or after a click or a Space
\* press, the value is the starting one when n is even and its negation when
\* n is odd (from a fresh load, checkbox 0: Space gives true, a second Space
\* false, five clicks true).
C12_SpaceTogglesAsClick ==
    /\ [][(op'.name \in {"click", "pressSpace"} /\ Resolves(boxes, op'.index))
             => /\ op'.result = "ok"
                /\ isCheckboxChecked(boxes', op'.index).value
                      = <<~isCheckboxChecked(boxes, op'.index).value[1]>>
                /\ boxes' = LocatorClick(boxes, focused, op'.index, syncScript).boxes
                /\ boxes' = LocatorPress(boxes, focused, op'.index, "Space", syncScript).boxes
         ]_vars
    /\ []((heading = <<HeadingText>> /\ op.name \in {"gotoCheckboxes", "click", "pressSpace"})
             => /\ \A i \in Checkboxes, steps \in ToggleRuns :
                      LET r == Interact(boxes, focused, i, steps, syncScript)
                      IN  /\ r.result = "ok"
                          /\ isCheckboxChecked(r.boxes, i).value[1]
                                = IF Len(steps) % 2 = 0
                                  THEN isCheckboxChecked(boxes, i).value[1]
                                  ELSE ~isCheckboxChecked(boxes, i).value[1]
                /\ (op.name = "gotoCheckboxes" /\ op.result = "ok")
                      => /\ isCheckboxChecked(
                                Interact(boxes, focused, 0, <<"Space">>, syncScript).boxes,
                                0).value = <<TRUE>>
                         /\ isCheckboxChecked(
                                Interact(boxes, focused, 0, <<"Space", "Space">>,
                                         syncScript).boxes, 0).value = <<FALSE>>
                         /\ isCheckboxChecked(
                                Interact(boxes, focused, 0,
                                         <<"click", "click", "click", "click", "click">>,
                                         syncScript).boxes, 0).value = <<TRUE>>)

C12_Witness ==
    /\ op.name = "pressSpace" /\ op.index = 0 /\ op.result = "ok"
    /\ prev.name = "click" /\ prev.index = 0
    /\ isCheckboxChecked(boxes, 0).value = <<FALSE>>
    /\ lastAction[1] = "other"

\* C13: getAllCheckboxStates returns a sequence as long as getCheckboxCount
\* says, whose element i is what isCheckboxChecked(i) returns on the page at
\* the time of the call, in document order; every call reads the page anew.
C13_AllStatesMatchPage ==
    op.name = "getAllCheckboxStates"
        => /\ op.result = "ok"
           /\ Len(op.value[1]) = getCheckboxCount(boxes).value[1]
           /\ \A i \in 0..(Len(op.value[1]) - 1) :
                  <<op.value[1][i + 1]>> = isCheckboxChecked(boxes, i).value

C13_Witness ==
    /\ op.name = "getAllCheckboxStates" /\ op.value = <<<<TRUE, FALSE>>>>
    /\ prev.name = "uncheckCheckbox" /\ prev.index = 1

\* What a call on an element that is not in the page fails with
ElementNotFoundKind == LocatorIsChecked(boxes, Count(boxes)).result

\* C14: failures come in three kinds that can be told apart: a call on a
\* missing element fails with the element-not-found kind, a gotoCheckboxes
\* whose heading never shows fails with another, navigation kind, and a
\* mismatch of checked property and checked attribute makes
\* verifyCheckboxSync and isCheckboxChecked fail with a third kind, never
\* return normally.
C14_DistinctErrorKinds ==
    /\ (op.name \in {"checkCheckbox", "uncheckCheckbox", "isCheckboxChecked",
                     "verifyCheckboxSync"} /\ ~Resolves(boxes, op.index))
          => op.result = ElementNotFoundKind
    /\ (op.name = "gotoCheckboxes" /\ heading # <<HeadingText>>)
          => op.result \notin {"ok", ElementNotFoundKind}
    /\ (op.name \in {"verifyCheckboxSync", "isCheckboxChecked"}
            /\ Resolves(boxes, op.index)
            /\ Nth(boxes, op.index).checked # Nth(boxes, op.index).attr)
          => op.result \notin {"ok", ElementNotFoundKind, gotoCheckboxes(TRUE, <<>>)}

\* C16: getCheckbox makes no bounds check: for every index, also one at or
\* past getCheckboxCount, it returns a handle, does not fail and leaves the
\* page alone; checkCheckbox, uncheckCheckbox and isCheckboxChecked on such
\* an index are what fails, with the failure of a missing element, and they
\* leave the page alone too.
C16_NoBoundsCheck ==
    [][/\ op'.name = "getCheckbox"
             => /\ op'.result = "ok"
                /\ op'.value = <<getCheckbox(op'.index)>>
                /\ PageState' = PageState
       /\ (op'.name \in {"checkCheckbox", "uncheckCheckbox", "isCheckboxChecked"}
              /\ op'.index >= getCheckboxCount(boxes).value[1])
             => /\ op'.result = "TimeoutError"
                /\ op'.result = ElementNotFoundKind
                /\ PageState' = PageState
      ]_vars

C16_Witness ==
    /\ prev.name = "getCheckbox" /\ prev.index = 2
    /\ op.name = "isCheckboxChecked" /\ op.index = 2 /\ op.result = "TimeoutError"
    /\ getCheckboxCount(boxes).value = <<2>>

C17_WitnessNoHeading ==
    /\ op.name = "gotoCheckboxes" /\ op.result = "TimeoutError"
    /\ url = GotoURL(CheckboxesPath)
    /\ getPageHeading(heading).result # "ok"

\* C18: the calls of a scenario take effect in the order issued: in
\* checkCheckbox(first).then(page => page.uncheckCheckbox(second)) the uncheck
\* starts from the page the settled check left, on the same document, and is
\* not started when the check failed; from a fresh load, first 0 and second 1
\* give getAllCheckboxStates [true, false].
C18_ChainedCallsInOrder ==
    [][op'.name = "checkThenUncheck"
          => LET first   == op'.index
                 second  == op'.value[1]
                 checked == checkCheckbox(boxes, focused, first, syncScript)
             IN  /\ <<url', heading', navigationOccurred'>>
                       = <<url, heading, navigationOccurred>>
                 /\ checked.result # "ok"
                       => (op'.result = checked.result /\ boxes' = boxes)
                 /\ checked.result = "ok"
                       => /\ boxes' = uncheckCheckbox(checked.boxes, checked.focused, second,
                                                      syncScript).boxes
                          /\ op'.result = "ok" <=> Resolves(boxes, second)
                 /\ op'.result = "ok"
                       => /\ isCheckboxChecked(boxes', second).value = <<FALSE>>
                          /\ first # second
                                => isCheckboxChecked(boxes', first).value = <<TRUE>>
                 /\ (op'.result = "ok" /\ first = 0 /\ second = 1)
                       => getAllCheckboxStates(boxes')
                             = [result |-> "ok", value |-> <<<<TRUE, FALSE>>>>]
      ]_vars

C18_Witness ==
    /\ op.name = "checkThenUncheck" /\ op.index = 0 /\ op.value = <<1>> /\ op.result = "ok"
    /\ prev.name = "gotoCheckboxes"
    /\ getAllCheckboxStates(boxes).value = <<<<TRUE, FALSE>>>>
    /\ lastAction = <<"check", "uncheck">>

\* The calls that go to one checkbox
ElementCalls == {"checkCheckbox", "uncheckCheckbox", "isCheckboxChecked", "verifyCheckboxSync"}

\* C15: no call of the page object recovers from a failure of a step under
\* it: when the navigation or the wait of gotoCheckboxes, the read of the
\* state of a missing element or the assertion of verifyCheckboxSync fails,
\* the call fails with that failure, leaves the page as that step left it,
\* and the test fails: the runner makes no further call on that page.
C15_NoLocalRecovery ==
    [][LET called == run'.calls = run.calls + 1
           before == run.phase = "beforeEach" /\ run'.phase # "beforeEach"
       IN  /\ (called /\ op'.name \in ElementCalls /\ ~Resolves(boxes, op'.index))
                 => /\ op'.result = LocatorIsChecked(boxes, getCheckbox(op'.index)).result
                    /\ op'.result # "ok"
                    /\ PageState' = PageState
           /\ (called /\ op'.name = "verifyCheckboxSync" /\ Resolves(boxes, op'.index)
                  /\ LocatorIsChecked(boxes, op'.index)
                        # LocatorHasCheckedAttribute(boxes, op'.index))
                 => (op'.result = "ExpectError" /\ PageState' = PageState)
           /\ (before /\ heading' # <<HeadingText>>)
                 => (op'.name = "gotoCheckboxes" /\ op'.result = "TimeoutError")
           /\ ((called \/ before) /\ op'.result # "ok") => run'.phase = "failed"
           /\ run.phase = "failed" => (op' = op \/ op'.name = "new")
      ]_vars

C15_Witness ==
    /\ op.name = "isCheckboxChecked" /\ op.index = 2 /\ op.result = "TimeoutError"
    /\ prev.name = "checkCheckbox" /\ prev.index = 0
    /\ run.phase = "failed" /\ run.calls = 2
    /\ isCheckboxChecked(boxes, 0).value = <<TRUE>>

C15_WitnessAssertion ==
    /\ op.name = "verifyCheckboxSync" /\ op.result = "ExpectError"
    /\ run.phase = "failed"

\* C19: every test starts from its own navigation to a fresh load: when the
\* first call of a body is due, the last call was the gotoCheckboxes of
\* beforeEach and getAllCheckboxStates is [false, true], whatever earlier
\* tests did or whether they failed and whatever a test in another worker
\* does to its page; between tests no checkbox state is kept.
C19_ScenarioIsolation ==
    /\ [](run.phase = "body" /\ run.calls = 0
             => /\ op.name = "gotoCheckboxes" /\ op.result = "ok"
                /\ prev.name = "new"
                /\ getAllCheckboxStates(boxes)
                      = [result |-> "ok",
                         value |-> <<<<INITIAL_STATES.checkbox1, INITIAL_STATES.checkbox2>>>>]
                /\ lastAction = Untouched(boxes))
    /\ [][/\ run'.phase = "beforeEach" => boxes' = <<>>
          /\ other' # other => UNCHANGED <<boxes, focused, url, heading, lastAction, op>>
         ]_vars

C19_Witness ==
    /\ run.phase = "body" /\ run.calls = 0
    /\ run.earlierFailed
    /\ other = <<[checked |-> TRUE, attr |-> TRUE], [checked |-> FALSE, attr |-> FALSE]>>
    /\ getAllCheckboxStates(boxes).value = <<<<FALSE, TRUE>>>>

\* C20: a retry runs the failed test again from its beforeEach, on a new
\* page, whose first call is the navigation; it takes up nothing of the page
\* the failed attempt left; a test is retried at most twice with CI set and
\* not at all without.
C20_RetryFromTheTop ==
    [][/\ run'.retry <= (IF run'.ci THEN 2 ELSE 0)
       /\ run'.retry = run.retry + 1
             => /\ run.phase = "failed"
                /\ run'.phase = "beforeEach" /\ run'.calls = 0
                /\ op'.name = "new"
                /\ boxes' = <<>> /\ heading' = <<>> /\ url' = BlankURL /\ lastAction' = <<>>
       /\ (run.phase = "beforeEach" /\ op' # op) => op'.name = "gotoCheckboxes"
       /\ (run.phase = "failed" /\ op' # op) => op'.name = "new"
      ]_vars

C20_Witness ==
    /\ run.ci /\ run.retry = 2
    /\ run.phase = "body" /\ run.calls = 0
    /\ getAllCheckboxStates(boxes).value = <<<<FALSE, TRUE>>>>

C20_WitnessNoRetry ==
    /\ ~run.ci /\ run.retry = 0 /\ run.earlierFailed

\* C21: a test that failed on a mismatch of checked property and checked
\* attribute (the assertion of verifyCheckboxSync) is not run again: no retry
\* starts from an attempt that this assertion ended.
C21_SyncFailureNotRetried ==
    [][run'.retry = run.retry + 1
          => ~(op.name = "verifyCheckboxSync" /\ op.result = "ExpectError")
      ]_vars

\* C22: every operation that waits on the browser (page.goto, the wait for
\* the heading, a read of the state, a check) ends: it never waits longer
\* than its timeout, it either completes or rejects with a TimeoutError, the
\* latter only when its timeout or the time of the test is over; the timeout
\* fails the test that issued the operation and no more: the runner goes on
\* to the next test, on a new page.
C22_OperationsTerminate ==
    /\ [](run.pending # "none"
             => (run.waited <= Timeout(run.pending) /\ run.elapsed <= testTimeout))
    /\ [][/\ (run.pending # "none" /\ run'.pending = "none")
                => \/ (op'.result = "ok" /\ run'.phase = "body")
                   \/ /\ op'.result = "TimeoutError"
                      /\ run'.phase = "failed"
                      /\ (run.waited >= Timeout(run.pending) \/ run.elapsed >= testTimeout)
                      /\ PageState' = PageState
          /\ (run.phase = "failed" /\ run' # run)
                => (run'.phase = "beforeEach" /\ op'.name = "new" /\ run'.elapsed = 0)
         ]_vars
    /\ (run.pending # "none") ~> (run.pending = "none")
    /\ (run.phase = "failed") ~> (run.phase = "beforeEach")

C22_Witness ==
    /\ op.name = "isCheckboxChecked" /\ op.index = 2 /\ op.result = "TimeoutError"
    /\ run.phase = "failed" /\ run.earlierFailed
    /\ run.elapsed = actionTimeout
    /\ heading = <<HeadingText>>

\* C23: checkCheckbox on a checkbox whose checked property is true does
\* nothing to the page: no check and no click reaches the element, so the
\* property and the attribute of every checkbox stay as they are, written or
\* not by the page's handler, and the focus stays where it was;
\* uncheckCheckbox on a checkbox whose property is false does nothing in the
\* same way.
C23_NoOpWhenAlreadyInState ==
    [][\A i \in Checkboxes :
          (/\ Resolves(boxes, i)
           /\ op'.index = i
           /\ \/ op'.name = "checkCheckbox" /\ Nth(boxes, i).checked
              \/ op'.name = "uncheckCheckbox" /\ ~Nth(boxes, i).checked)
             => /\ op'.result = "ok"
                /\ boxes' = boxes
                /\ focused' = focused
                /\ <<url', heading', navigationOccurred'>> = <<url, heading, navigationOccurred>>
      ]_vars

C23_Witness ==
    /\ op.name = "checkCheckbox" /\ op.index = 0 /\ op.result = "ok"
    /\ prev.name = "checkCheckbox" /\ prev.index = 0
    /\ Nth(boxes, 0) = [checked |-> TRUE, attr |-> FALSE]
    /\ focused = {0}

C23_WitnessUncheck ==
    /\ op.name = "uncheckCheckbox" /\ op.index = 0 /\ op.result = "ok"
    /\ prev.name = "focus" /\ prev.index = 1
    /\ focused = {1}
    /\ ~Nth(boxes, 0).checked

\* C24: after checkbox 0 is focused it is the active element; one Tab press
\* on checkbox 0 makes checkbox 1 the active element, and checkbox 0 is the
\* active element no more.
C24_FocusOrder ==
    /\ (op.name = "focus" /\ op.index = 0 /\ op.result = "ok")
          => IsActiveElement(boxes, focused, 0) = [result |-> "ok", value |-> <<TRUE>>]
    /\ (op.name = "pressTab" /\ op.index = 0 /\ op.result = "ok")
          => /\ IsActiveElement(boxes, focused, 1) = [result |-> "ok", value |-> <<TRUE>>]
             /\ IsActiveElement(boxes, focused, 0) = [result |-> "ok", value |-> <<FALSE>>]

C24_Witness ==
    /\ op.name = "pressTab" /\ op.index = 0 /\ op.result = "ok"
    /\ prev.name = "focus" /\ prev.index = 0
    /\ focused = {1}

\* The page with the checked attribute of every checkbox the other way round
AttributesFlipped(b) == [i \in 1..Len(b) |-> [b[i] EXCEPT !.attr = ~@]]

C25_WitnessAgree ==
    /\ op.name = "verifyCheckboxSync" /\ op.index = 0 /\ op.result = "ok"
    /\ prev.name = "checkCheckbox" /\ prev.index = 0
    /\ Nth(boxes, 0) = [checked |-> TRUE, attr |-> TRUE]

\* The calls of the page object that ask and do not act
QueryCalls ==
    {"getCheckbox", "isCheckboxChecked", "verifyCheckboxSync", "getAllCheckboxStates",
     "getCheckboxCount"}

\* C26: getCheckbox, isCheckboxChecked, verifyCheckboxSync,
\* getAllCheckboxStates and getCheckboxCount only read: whether the call
\* returns or fails, the property and the attribute of every checkbox, the
\* number of checkboxes, the focused element and the URL are after the call
\* what they were before it.
C26_QueriesReadOnly ==
    [][op'.name \in QueryCalls
          => /\ boxes' = boxes
             /\ getCheckboxCount(boxes') = getCheckboxCount(boxes)
             /\ focused' = focused
             /\ url' = url
             /\ <<heading', navigationOccurred', lastAction'>>
                   = <<heading, navigationOccurred, lastAction>>
      ]_vars

C26_Witness ==
    /\ op.name = "verifyCheckboxSync" /\ op.index = 0 /\ op.result = "ExpectError"
    /\ prev.name = "checkCheckbox" /\ prev.index = 0
    /\ focused = {0}
    /\ boxes = <<[checked |-> TRUE, attr |-> FALSE], [checked |-> TRUE, attr |-> TRUE]>>

C26_WitnessMissing ==
    /\ op.name = "isCheckboxChecked" /\ op.index = 2 /\ op.result = "TimeoutError"
    /\ prev.name = "uncheckCheckbox" /\ prev.index = 1
    /\ focused = {1}

\* The four state vectors of two checkboxes
StateVectors == [1..2 -> BOOLEAN]

\* C27: on the loaded page getAllCheckboxStates is one of the four vectors
\* of two booleans and no call leads out of them; from each state every
\* vector is reached with checkCheckbox and uncheckCheckbox alone, by one
\* call for each index that differs, two at most; so all four are reached
\* from the fresh load.
C27_FourStatesReachable ==
    heading = <<HeadingText>>
        => /\ getAllCheckboxStates(boxes).result = "ok"
           /\ getAllCheckboxStates(boxes).value[1] \in StateVectors
           /\ \A wanted \in StateVectors :
                  /\ Cardinality(Plan(boxes, wanted)) <= 2
                  /\ getAllCheckboxStates(MoveTo(boxes, wanted, 0, syncScript)).value
                        = <<wanted>>
                  /\ Plan(MoveTo(boxes, wanted, 0, syncScript), wanted) = {}

C27_Witness ==
    /\ op.name = "uncheckCheckbox" /\ op.index = 1 /\ op.result = "ok"
    /\ prev.name = "checkCheckbox" /\ prev.index = 0
    /\ getAllCheckboxStates(boxes).value = <<<<TRUE, FALSE>>>>
    /\ lastAction = <<"check", "uncheck">>

C27_WitnessNone ==
    /\ op.name = "uncheckCheckbox" /\ op.index = 1 /\ op.result = "ok"
    /\ prev.name = "gotoCheckboxes"
    /\ getAllCheckboxStates(boxes).value = <<<<FALSE, FALSE>>>>

C27_WitnessBoth ==
    /\ op.name = "checkCheckbox" /\ op.index = 0 /\ op.result = "ok"
    /\ prev.name = "gotoCheckboxes"
    /\ getAllCheckboxStates(boxes).value = <<<<TRUE, TRUE>>>>

\* C28: checkCheckbox reads the state and checks in two awaited steps; when
\* checkCheckbox is called twice on one checkbox with no await between,
\* then, the check action clicking only a checkbox that is unchecked when it
\* runs, in every order of the steps of the two calls the checkbox is
\* clicked once at most, neither call fails on a present checkbox, and with
\* both calls settled the checkbox is checked.
C28_UnawaitedChecksEndChecked ==
    run.inflight # <<>>
        => LET index == run.inflight[1].index
           IN  /\ run.clicks <= 1
               /\ Resolves(boxes, index)
                     => /\ \A c \in DOMAIN run.inflight : run.inflight[c].pc # "failed"
                        /\ (\A c \in DOMAIN run.inflight : run.inflight[c].pc = "done")
                              => /\ Nth(boxes, index).checked
                                 /\ isCheckboxChecked(boxes, index).value = <<TRUE>>
                        /\ run.clicks = 1 => Nth(boxes, index).checked

C28_Witness ==
    /\ run.inflight # <<>>
    /\ \A c \in DOMAIN run.inflight :
          /\ run.inflight[c].pc = "done"
          /\ run.inflight[c].index = 0
          /\ ~run.inflight[c].isChecked
    /\ run.clicks = 1
    /\ isCheckboxChecked(boxes, 0).value = <<TRUE>>

\* C29: on the loaded page CHECKBOX_SELECTORS.firstCheckbox and
\* CHECKBOX_SELECTORS.secondCheckbox select one element each, the element of
\* getCheckbox(0) and the element of getCheckbox(1).
C29_SelectorsPickTheCheckboxes ==
    heading = <<HeadingText>>
        => LET children == FormChildren(boxes)
               first    == Select(children, CHECKBOX_SELECTORS.firstCheckbox)
               second   == Select(children, CHECKBOX_SELECTORS.secondCheckbox)
           IN  /\ Cardinality(first) = 1
               /\ first = NthMatch(children, getCheckbox(0))
               /\ Cardinality(second) = 1
               /\ second = NthMatch(children, getCheckbox(1))

\* What holds of the selectors: the first selects the element of
\* getCheckbox(0), the second selects nothing, the second child being the
\* line break.
C29_SecondSelectsNothing ==
    heading = <<HeadingText>>
        => LET children == FormChildren(boxes)
           IN  /\ Select(children, CHECKBOX_SELECTORS.firstCheckbox)
                     = NthMatch(children, getCheckbox(0))
               /\ Cardinality(NthMatch(children, getCheckbox(0))) = 1
               /\ Cardinality(NthMatch(children, getCheckbox(1))) = 1
               /\ \A k \in NthMatch(children, getCheckbox(1)) : children[k].box = 1
               /\ Select(children, CHECKBOX_SELECTORS.secondCheckbox) = {}
               /\ Cardinality(Select(children, CHECKBOX_SELECTORS.allCheckboxes))
                     = getCheckboxCount(boxes).value[1]

====
